---- MODULE Spec2Model ----
(***************************************************************************)
(* Model of chargepoint_demo.py: Conway's Game of Life on a grid that      *)
(* grows and shrinks to keep a margin of dead rows and columns around the  *)
(* live region.  Cells are booleans (TRUE = alive); the grid is a sequence *)
(* of rows, each a sequence of cells.  Python's 0-based indices are kept   *)
(* in the operators' arguments and shifted by one at the sequence access.  *)
(***************************************************************************)
EXTENDS Integers, Sequences, FiniteSets, TLC

\* ---- bounds of the model ----
MaxDim == 5        \* largest row/column count passed to Grid.__init__
MaxMargin == 2     \* largest margin passed to Grid.__init__ (0 is passed too)
MaxTicks == 11     \* number of ticks a run goes on for

\* ---- pattern notations: sequences of characters ----
gPatternDict ==
  [ block  |-> <<"X","X","/","X","X">>,
    blink  |-> <<"X","X","X">>,
    bounce |-> <<"X","X","/","X","X","/",".",".","X","X","/",".",".","X","X">>,
    glider |-> <<".","X","/",".",".","X","/","X","X","X">>,
    spaceship |-> <<".","X","X","X","X","/","X",".",".",".","X","/",
                    ".",".",".",".","X","/","X",".",".","X">>,
    expanding |-> <<".",".",".",".",".",".","X","/",
                    ".",".",".",".","X",".","X","X","/",
                    ".",".",".",".","X",".","X","/",
                    ".",".",".",".","X","/",
                    ".",".","X","/",
                    "X",".","X">> ]

\* the notations the runs are seeded with: three presets and literal ones
Patterns ==
  { gPatternDict.block, gPatternDict.blink, gPatternDict.glider,
    <<"X">>, << >>, <<".",".",".">>, <<"X",".",".">> }

GridTypes == {"inf", "fixed"}

\* ---- GridCell ----
\* GridCell.fromChar(ch).isAlive()
fromChar(ch) == ch # "." /\ ch # " "

\* ---- Python list primitives ----
\* the list index i resolves to (0-based), or -1 where Python raises IndexError
PyIndex(n, i) ==
  IF i >= 0 THEN (IF i < n THEN i ELSE -1)
  ELSE (IF i >= -n THEN n + i ELSE -1)

\* list.insert(i, x) for 0 <= i <= len
InsertAt(s, i, x) == SubSeq(s, 1, i) \o <<x>> \o SubSeq(s, i + 1, Len(s))

\* list.pop(i) for 0 <= i < len
PopAt(s, i) == SubSeq(s, 1, i) \o SubSeq(s, i + 2, Len(s))

\* ---- Pattern ----
\* str.strip("/")
RECURSIVE StripLeft(_)
StripLeft(s) ==
  IF Len(s) > 0 /\ s[1] = "/" THEN StripLeft(Tail(s)) ELSE s

RECURSIVE StripRight(_)
StripRight(s) ==
  IF Len(s) > 0 /\ s[Len(s)] = "/" THEN StripRight(SubSeq(s, 1, Len(s) - 1)) ELSE s

Strip(s) == StripRight(StripLeft(s))

\* str.split("/")
RECURSIVE Split(_)
Split(s) ==
  IF \A i \in 1..Len(s) : s[i] # "/" THEN <<s>>
  ELSE LET k == CHOOSE i \in 1..Len(s) : s[i] = "/" /\ \A j \in 1..(i - 1) : s[j] # "/"
       IN <<SubSeq(s, 1, k - 1)>> \o Split(SubSeq(s, k + 1, Len(s)))

\* GridPoint(r, c, alive)
GridPoint(r, c, isAlive) == [row |-> r, col |-> c, alive |-> isAlive]

\* itertools.chain.from_iterable
RECURSIVE Chain(_)
Chain(ss) == IF ss = << >> THEN << >> ELSE Head(ss) \o Chain(Tail(ss))

\* Pattern.__init__: one point per character, dead ones included
PatternPoints(pattern) ==
  LET segs == Split(Strip(pattern))
  IN Chain([r \in 1..Len(segs) |->
             [c \in 1..Len(segs[r]) |-> GridPoint(r - 1, c - 1, fromChar(segs[r][c]))]])

Max(a, b) == IF a >= b THEN a ELSE b

\* Pattern.getExtent: largest row and column index over self.points
RECURSIVE PatternExtentFrom(_, _, _)
PatternExtentFrom(points, maxrow, maxcol) ==
  IF points = << >> THEN <<maxrow, maxcol>>
  ELSE PatternExtentFrom(Tail(points), Max(maxrow, Head(points).row),
                         Max(maxcol, Head(points).col))

PatternExtent(points) == PatternExtentFrom(points, 0, 0)

\* Pattern.moveBy
PatternMoveBy(points, howmuch) ==
  [i \in 1..Len(points) |->
     GridPoint(points[i].row + howmuch[1], points[i].col + howmuch[2], points[i].alive)]

\* ---- Grid ----
directions ==
  << <<-1, -1>>, <<-1, 0>>, <<-1, 1>>, <<0, -1>>, <<0, 1>>, <<1, -1>>, <<1, 0>>, <<1, 1>> >>

\* the entries of Grid.directions, all different
DirectionSet == {directions[d] : d \in 1..Len(directions)}

\* ConfigError with the margins paired north+east and south+west
ConfigError_wrongPairs(gridType, ext, mar) ==
  IF gridType # "inf" THEN "bad grid type"
  ELSE IF \E i \in 1..Len(mar) : mar[i] < 1 THEN "bad grid margins"
  ELSE IF ext[1] < mar[1] + mar[2] \/ ext[2] < mar[3] + mar[4] THEN "bad grid extents"
  ELSE "none"

\* the checks of Grid.__init__, in the order the code makes them
ConfigError(gridType, ext, mar) ==
  IF gridType # "inf" THEN "bad grid type"
  ELSE IF \E i \in 1..Len(mar) : mar[i] < 1 THEN "bad grid margins"
  ELSE IF ext[1] < mar[1] + mar[3] \/ ext[2] < mar[2] + mar[4] THEN "bad grid extents"
  ELSE "none"

\* [GridCell()] * n
DeadRow(n) == [c \in 1..n |-> FALSE]

\* the cell array Grid.__init__ builds
NewRows(ext) == [r \in 1..ext[1] |-> DeadRow(ext[2])]

\* Grid.isCellAlive: self.rows[r][c].isAlive(), called with indices in range
isCellAlive(rws, r, c) ==
  LET row == rws[PyIndex(Len(rws), r) + 1]
  IN row[PyIndex(Len(row), c) + 1]

\* Grid.getCell(r, c).isAlive(): self.rows[r][c] in a try, a dead cell on any
\* error.  Python takes an index i in -len..-1 from the end of the list and
\* raises IndexError only for i >= len or i < -len.
getCell(rws, r, c) ==
  IF r >= Len(rws) \/ r < -Len(rws) THEN FALSE
  ELSE LET row == rws[IF r >= 0 THEN r + 1 ELSE Len(rws) + r + 1]
       IN IF c >= Len(row) \/ c < -Len(row) THEN FALSE
          ELSE row[IF c >= 0 THEN c + 1 ELSE Len(row) + c + 1]

\* countNeighborsCell counting the cell itself with its neighbours
countNeighborsCell_withSelf(rws, r0, c0) ==
  Cardinality({s \in DirectionSet : getCell(rws, s[1] + r0, s[2] + c0)})
  + (IF getCell(rws, r0, c0) THEN 1 ELSE 0)

\* Grid._countNeighborsCell
countNeighborsCell(rws, r0, c0) ==
  Cardinality({s \in DirectionSet : getCell(rws, s[1] + r0, s[2] + c0)})

\* Grid.countNeighborsForRow
countNeighborsForRow(rws, ext, row) ==
  [c \in 1..ext[2] |-> countNeighborsCell(rws, row, c - 1)]

\* ---- Grid.applyPoints, first half: superimpose the points ----
\* self.rows[x.row][x.col] = x.state for each point in turn; an index out of
\* range raises IndexError and leaves the points before it applied
RECURSIVE SetPoints(_, _)
SetPoints(rws, points) ==
  IF points = << >> THEN [rows |-> rws, ok |-> TRUE]
  ELSE LET x == Head(points)
           ri == PyIndex(Len(rws), x.row)
       IN IF ri = -1 THEN [rows |-> rws, ok |-> FALSE]
          ELSE LET ci == PyIndex(Len(rws[ri + 1]), x.col)
               IN IF ci = -1 THEN [rows |-> rws, ok |-> FALSE]
                  ELSE SetPoints([rws EXCEPT ![ri + 1][ci + 1] = x.alive], Tail(points))

\* ---- Grid._maintainMargin ----
\* A grid g is [rows |-> the cell array, extent |-> the stored <<rowCount, colCount>>].
testRowIsDead(g, r) == \A c \in 0..(g.extent[2] - 1) : ~isCellAlive(g.rows, r, c)

testColumnIsDead(g, c) == \A r \in 0..(g.extent[1] - 1) : ~isCellAlive(g.rows, r, c)

RECURSIVE ScanTop(_, _)
ScanTop(g, top) ==
  IF top < g.extent[1] /\ testRowIsDead(g, top) THEN ScanTop(g, top + 1) ELSE top

RECURSIVE ScanBottom(_, _, _)
ScanBottom(g, top, bottom) ==
  IF bottom < g.extent[1] /\ bottom > top /\ testRowIsDead(g, bottom)
  THEN ScanBottom(g, top, bottom - 1) ELSE bottom

RECURSIVE ScanLeft(_, _)
ScanLeft(g, left) ==
  IF left < g.extent[2] /\ testColumnIsDead(g, left) THEN ScanLeft(g, left + 1) ELSE left

RECURSIVE ScanRight(_, _, _)
ScanRight(g, left, right) ==
  IF right < g.extent[2] /\ right > left /\ testColumnIsDead(g, right)
  THEN ScanRight(g, left, right - 1) ELSE right

\* computeDeficits with the south distance taken one too large
computeDeficits_southOffByOne(g, mar) ==
  LET top == ScanTop(g, 0)
      bottom == ScanBottom(g, top, g.extent[1] - 1)
      left == ScanLeft(g, 0)
      right == ScanRight(g, left, g.extent[2] - 1)
  IN [N |-> mar[1] - top,
      E |-> mar[2] - (g.extent[2] - right - 1),
      S |-> mar[3] - (g.extent[1] - bottom),
      W |-> mar[4] - left]

\* __computeDeficits; margins are <<north, east, south, west>>
computeDeficits(g, mar) ==
  LET top == ScanTop(g, 0)
      bottom == ScanBottom(g, top, g.extent[1] - 1)
      left == ScanLeft(g, 0)
      right == ScanRight(g, left, g.extent[2] - 1)
  IN [N |-> mar[1] - top,
      E |-> mar[2] - (g.extent[2] - right - 1),
      S |-> mar[3] - (g.extent[1] - bottom - 1),
      W |-> mar[4] - left]

Abs(n) == IF n < 0 THEN -n ELSE n

\* addARow putting the row at the end whatever the index
addARow_append(g, i) == [g EXCEPT !.rows = Append(g.rows, DeadRow(g.extent[2]))]

addARow(g, i) == [g EXCEPT !.rows = InsertAt(g.rows, i, DeadRow(g.extent[2]))]

\* trimARow taking the last row (list.pop() without its index)
trimARow_last(g, i) == [g EXCEPT !.rows = PopAt(g.rows, Len(g.rows) - 1)]

trimARow(g, i) == [g EXCEPT !.rows = PopAt(g.rows, i)]

\* the loop runs over range(self.extent[0]), the stored row count
addAColumn(g, i) ==
  [g EXCEPT !.rows = [r \in 1..Len(g.rows) |->
                        IF r <= g.extent[1] THEN InsertAt(g.rows[r], i, FALSE) ELSE g.rows[r]]]

\* the last column popped whatever the index asked for
trimAColumn_last(g, i) ==
  [g EXCEPT !.rows = [r \in 1..Len(g.rows) |->
                        IF r <= g.extent[1] THEN PopAt(g.rows[r], Len(g.rows[r]) - 1)
                        ELSE g.rows[r]]]

trimAColumn(g, i) ==
  [g EXCEPT !.rows = [r \in 1..Len(g.rows) |->
                        IF r <= g.extent[1] THEN PopAt(g.rows[r], i) ELSE g.rows[r]]]

\* the stored row count left as it was
UpdateRowCount_stale(g) == g

\* self.extent[0] = len(self.rows)
UpdateRowCount(g) == [g EXCEPT !.extent[1] = Len(g.rows)]

\* the stored column count left as it was
UpdateColCount_stale(g) == g

\* self.extent[1] = len(self.rows[0])
UpdateColCount(g) == [g EXCEPT !.extent[2] = Len(g.rows[1])]

\* the north end trimmed whether or not trim_now is set
RECURSIVE AdjustNorth_alwaysTrims(_, _, _, _)
AdjustNorth_alwaysTrims(g, n, deficit, trim_now) ==
  IF n = 0 THEN g
  ELSE AdjustNorth_alwaysTrims(IF deficit > 0 THEN addARow(g, 0) ELSE trimARow(g, 0),
                               n - 1, deficit, trim_now)

\* rows, north end
RECURSIVE AdjustNorth(_, _, _, _)
AdjustNorth(g, n, deficit, trim_now) ==
  IF n = 0 THEN g
  ELSE AdjustNorth(IF deficit > 0 THEN addARow(g, 0)
                   ELSE IF trim_now THEN trimARow(g, 0) ELSE g,
                   n - 1, deficit, trim_now)

\* the south end worked on with the north end's calls
RECURSIVE AdjustSouth_atNorth(_, _, _, _)
AdjustSouth_atNorth(g, n, deficit, trim_now) ==
  IF n = 0 THEN g
  ELSE AdjustSouth_atNorth(IF deficit > 0 THEN addARow(g, 0)
                           ELSE IF trim_now THEN trimARow(g, 0) ELSE g,
                           n - 1, deficit, trim_now)

\* rows, south end
RECURSIVE AdjustSouth(_, _, _, _)
AdjustSouth(g, n, deficit, trim_now) ==
  IF n = 0 THEN g
  ELSE AdjustSouth(IF deficit > 0 THEN addARow(g, Len(g.rows))
                   ELSE IF trim_now THEN [g EXCEPT !.rows = PopAt(g.rows, Len(g.rows) - 1)] ELSE g,
                   n - 1, deficit, trim_now)

\* the west end never trimmed
RECURSIVE AdjustWest_growOnly(_, _, _, _)
AdjustWest_growOnly(g, n, deficit, trim_now) ==
  IF n = 0 THEN g
  ELSE AdjustWest_growOnly(IF deficit > 0 THEN addAColumn(g, 0) ELSE g,
                           n - 1, deficit, trim_now)

\* columns, west end
RECURSIVE AdjustWest(_, _, _, _)
AdjustWest(g, n, deficit, trim_now) ==
  IF n = 0 THEN g
  ELSE AdjustWest(IF deficit > 0 THEN addAColumn(g, 0)
                  ELSE IF trim_now THEN trimAColumn(g, 0) ELSE g,
                  n - 1, deficit, trim_now)

\* the east end left to grow until the next trimming call
RECURSIVE AdjustEast_growthDeferred(_, _, _, _)
AdjustEast_growthDeferred(g, n, deficit, trim_now) ==
  IF n = 0 THEN g
  ELSE AdjustEast_growthDeferred(IF ~trim_now THEN g
                                 ELSE IF deficit > 0 THEN addAColumn(g, Len(g.rows[1]))
                                 ELSE trimAColumn(g, Len(g.rows[1]) - 1),
                                 n - 1, deficit, trim_now)

\* columns, east end
RECURSIVE AdjustEast(_, _, _, _)
AdjustEast(g, n, deficit, trim_now) ==
  IF n = 0 THEN g
  ELSE AdjustEast(IF deficit > 0 THEN addAColumn(g, Len(g.rows[1]))
                  ELSE IF trim_now THEN trimAColumn(g, Len(g.rows[1]) - 1) ELSE g,
                  n - 1, deficit, trim_now)

\* one side's loop and the update of the stored count that follows it
AdjustSide(g, side, d, trim_now) ==
  CASE side = "N" -> UpdateRowCount(AdjustNorth(g, Abs(d.N), d.N, trim_now))
    [] side = "S" -> UpdateRowCount(AdjustSouth(g, Abs(d.S), d.S, trim_now))
    [] side = "W" -> UpdateColCount(AdjustWest(g, Abs(d.W), d.W, trim_now))
    [] side = "E" -> UpdateColCount(AdjustEast(g, Abs(d.E), d.E, trim_now))

\* the four sides' loops run one after the other in a given order, on the
\* deficits d computed beforehand
RECURSIVE AdjustInOrder(_, _, _, _)
AdjustInOrder(g, order, d, trim_now) ==
  IF order = << >> THEN g
  ELSE AdjustInOrder(AdjustSide(g, Head(order), d, trim_now), Tail(order), d, trim_now)

\* the grid after each of the four sides has been worked on, in the code's order
MarginSteps(g, mar, trim_now) ==
  LET d == computeDeficits(g, mar)
      gN == UpdateRowCount(AdjustNorth(g, Abs(d.N), d.N, trim_now))
      gS == UpdateRowCount(AdjustSouth(gN, Abs(d.S), d.S, trim_now))
      gW == UpdateColCount(AdjustWest(gS, Abs(d.W), d.W, trim_now))
      gE == UpdateColCount(AdjustEast(gW, Abs(d.E), d.E, trim_now))
  IN [deficits |-> d, north |-> gN, south |-> gS, west |-> gW, east |-> gE]

maintainMargin(g, mar, trim_now) == MarginSteps(g, mar, trim_now).east

\* how far the cells kept by a margin maintenance moved, given its steps st on
\* the grid g: the rows put in (or taken out, negative) at index 0 and the
\* columns put in (or taken out) at index 0
MarginShift(g, st) ==
  <<Len(st.north.rows) - Len(g.rows), Len(st.west.rows[1]) - Len(st.south.rows[1])>>

\* Grid.seedPattern: the points of the pattern, moved to the centre
seedPoints(ext, initialPattern) ==
  LET p == PatternPoints(initialPattern)
      pextent == PatternExtent(p)
      moveBy == <<(ext[1] - pextent[1]) \div 2, (ext[2] - pextent[2]) \div 2>>
  IN PatternMoveBy(p, moveBy)

\* ---- GameOfLife ----
dieTest(rws, rownum, ncount, colnum) ==
  ~(2 <= ncount /\ ncount <= 3) /\ isCellAlive(rws, rownum, colnum)

birthTest(rws, rownum, ncount, colnum) ==
  3 = ncount /\ ~isCellAlive(rws, rownum, colnum)

\* GameOfLife._determineTransitions from column colnum on
RECURSIVE determineTransitionsFrom(_, _, _, _)
determineTransitionsFrom(rws, rownum, neighbors, colnum) ==
  IF colnum >= Len(neighbors) THEN << >>
  ELSE (IF dieTest(rws, rownum, neighbors[colnum + 1], colnum)
          THEN <<GridPoint(rownum, colnum, FALSE)>>
        ELSE IF birthTest(rws, rownum, neighbors[colnum + 1], colnum)
          THEN <<GridPoint(rownum, colnum, TRUE)>>
        ELSE << >>)
       \o determineTransitionsFrom(rws, rownum, neighbors, colnum + 1)

determineTransitions(rws, rownum, neighbors) ==
  determineTransitionsFrom(rws, rownum, neighbors, 0)

\* the transitions of each row applied before the next row is counted
RECURSIVE tickTransitionsInPlaceFrom(_, _, _)
tickTransitionsInPlaceFrom(rws, ext, r) ==
  IF r >= ext[1] THEN << >>
  ELSE LET t == determineTransitions(rws, r, countNeighborsForRow(rws, ext, r))
       IN t \o tickTransitionsInPlaceFrom(SetPoints(rws, t).rows, ext, r + 1)

tickTransitions_inPlace(rws, ext) == tickTransitionsInPlaceFrom(rws, ext, 0)

\* the transitions list GameOfLife.tick collects, row by row, before applying any
tickTransitions(rws, ext) ==
  Chain([r \in 1..ext[1] |->
           determineTransitions(rws, r - 1, countNeighborsForRow(rws, ext, r - 1))])

\* trim_now without the test for tickCount 0
tickTrimNow_atZero(tc) == tc % 5 = 0

\* the trim_now argument of tick: self.tickCount and self.tickCount % 5 == 0
tickTrimNow(tc) == IF tc = 0 THEN FALSE ELSE tc % 5 = 0

\* ---- the state machine ----
VARIABLES
  pc,         \* "start", "configError", "constructed", "seedError", "ticking"
              \* or "tickError"
  args,       \* the arguments Grid.__init__ was called with
  rows,       \* Grid.rows, << >> while there is no grid
  extent,     \* Grid.extent, the stored <<rowCount, colCount>>
  margins,    \* Grid.margins, <<north, east, south, west>>
  tickCount,  \* GameOfLife.tickCount
  pattern,    \* the notation the grid was seeded with
  seedRows,   \* the cell array as seedPattern left it
  past,       \* the last two applyPoints calls, the latest first
  defaultExtent,  \* the list that is the default of GameOfLife.__init__'s extent
  extentIs,   \* the list Grid.extent is bound to: "caller" for the list the
              \* caller passed, "default" for the default list, "none" before
  later       \* TRUE once an earlier game has been played

vars ==
  <<pc, args, rows, extent, margins, tickCount, pattern, seedRows, past,
    defaultExtent, extentIs, later>>

\* def __init__(self, extent=[10,20], margins=[2,3,2,3], initialPattern="XX/XX")
DefaultExtent == <<10, 20>>

DefaultMargins == <<2, 3, 2, 3>>

Extents == {<<r, c>> : r \in 1..MaxDim, c \in 1..MaxDim}

MarginLists ==
  {<<n, e, s, w>> : n \in 0..MaxMargin, e \in 0..MaxMargin, s \in 0..MaxMargin, w \in 0..MaxMargin}

Init ==
  /\ pc = "start"
  /\ args = << >>
  /\ rows = << >>
  /\ extent = << >>
  /\ margins = << >>
  /\ tickCount = 0
  /\ pattern = << >>
  /\ seedRows = << >>
  /\ past = << >>
  /\ defaultExtent = DefaultExtent
  /\ extentIs = "none"
  /\ later = FALSE

\* Grid.__init__(gridType, extent, margins)
NewGrid ==
  /\ pc = "start"
  /\ \E gridType \in GridTypes, ext \in Extents, mar \in MarginLists :
       /\ args' = [gridType |-> gridType, extent |-> ext, margins |-> mar]
       /\ IF ConfigError(gridType, ext, mar) # "none"
            THEN /\ pc' = "configError"
                 /\ UNCHANGED <<rows, extent, margins, extentIs>>
            ELSE /\ pc' = "constructed"
                 /\ extent' = ext
                 /\ extentIs' = "caller"
                 /\ margins' = mar
                 /\ rows' = NewRows(ext)
  /\ UNCHANGED <<tickCount, pattern, seedRows, past, defaultExtent, later>>

\* Grid.__init__("inf", extent, margins) as GameOfLife.__init__ calls it when
\* its caller gave no extent and no margins: extent is the default list itself
NewDefaultGrid ==
  /\ pc = "start"
  /\ args' = [gridType |-> "inf", extent |-> defaultExtent, margins |-> DefaultMargins]
  /\ IF ConfigError("inf", defaultExtent, DefaultMargins) # "none"
       THEN /\ pc' = "configError"
            /\ UNCHANGED <<rows, extent, margins, extentIs>>
       ELSE /\ pc' = "constructed"
            /\ extent' = defaultExtent
            /\ extentIs' = "default"
            /\ margins' = DefaultMargins
            /\ rows' = NewRows(defaultExtent)
  /\ UNCHANGED <<tickCount, pattern, seedRows, past, defaultExtent, later>>

\* self.extent[0] = ..., self.extent[1] = ... in _maintainMargin write into the
\* list Grid.extent is bound to; this is the default list after them
DefaultAfter(ext) == IF extentIs = "default" THEN ext ELSE defaultExtent

\* what one applyPoints call did: the grid before it, the cell array once the
\* points are set (before any row or column is put in or taken out), the
\* trim_now it was given, the deficits found and how far the cells moved
ApplyRecord(kind, tc, rws, ext, mid, trim_now, st) ==
  [kind |-> kind, tc |-> tc, rows |-> rws, extent |-> ext, mid |-> mid, trim |-> trim_now,
   deficits |-> st.deficits,
   shift |-> MarginShift([rows |-> mid, extent |-> ext], st)]

Remember(rec) == <<rec>> \o (IF past = << >> THEN << >> ELSE <<past[1]>>)

\* Grid.seedPattern(initialPattern, "center"), then self.tickCount = 0
SeedPattern ==
  /\ pc = "constructed"
  /\ \E initialPattern \in Patterns :
     \E sp \in {SetPoints(rows, seedPoints(extent, initialPattern))} :
       /\ pattern' = initialPattern
       /\ IF sp.ok
            THEN \E st \in {MarginSteps([rows |-> sp.rows, extent |-> extent], margins, FALSE)} :
                   /\ pc' = "ticking"
                   /\ rows' = st.east.rows
                   /\ extent' = st.east.extent
                   /\ seedRows' = st.east.rows
                   /\ past' = Remember(ApplyRecord("seed", 0, rows, extent, sp.rows, FALSE, st))
                   /\ defaultExtent' = DefaultAfter(st.east.extent)
            ELSE /\ pc' = "seedError"
                 /\ rows' = sp.rows
                 /\ UNCHANGED <<extent, seedRows, past, defaultExtent>>
  /\ tickCount' = 0
  /\ UNCHANGED <<args, margins, extentIs, later>>

\* GameOfLife.tick()
Tick ==
  /\ pc = "ticking"
  /\ tickCount < MaxTicks
  /\ \E transitions \in {tickTransitions(rows, extent)} :
     \E trim_now \in {tickTrimNow(tickCount)} :
     \E sp \in {SetPoints(rows, transitions)} :
       IF sp.ok
         THEN \E st \in {MarginSteps([rows |-> sp.rows, extent |-> extent], margins, trim_now)} :
                /\ rows' = st.east.rows
                /\ extent' = st.east.extent
                /\ tickCount' = tickCount + 1
                /\ past' = Remember(ApplyRecord("tick", tickCount, rows, extent, sp.rows, trim_now, st))
                /\ defaultExtent' = DefaultAfter(st.east.extent)
                /\ pc' = pc
         ELSE /\ pc' = "tickError"
              /\ rows' = sp.rows
              /\ UNCHANGED <<extent, tickCount, past, defaultExtent>>
  /\ UNCHANGED <<args, margins, pattern, seedRows, extentIs, later>>

Next == NewGrid \/ SeedPattern \/ Tick

Spec == Init /\ [][Next]_vars

\* the margins of 1 or 2 rows or columns a side
SideMargins == {<<n, e, s, w>> : n \in {1, 2}, e \in {1, 2}, s \in {1, 2}, w \in {1, 2}}

\* Grid.__init__("inf", extent, margins) with such margins
NewSideGrid ==
  /\ pc = "start"
  /\ \E ext \in Extents, mar \in SideMargins :
       /\ args' = [gridType |-> "inf", extent |-> ext, margins |-> mar]
       /\ IF ConfigError("inf", ext, mar) # "none"
            THEN /\ pc' = "configError"
                 /\ UNCHANGED <<rows, extent, margins, extentIs>>
            ELSE /\ pc' = "constructed"
                 /\ extent' = ext
                 /\ extentIs' = "caller"
                 /\ margins' = mar
                 /\ rows' = NewRows(ext)
  /\ UNCHANGED <<tickCount, pattern, seedRows, past, defaultExtent, later>>

\* games on grids with such margins
NextSides == NewSideGrid \/ SeedPattern \/ Tick

SpecSides == Init /\ [][NextSides]_vars

\* the program is done with a game and goes on to construct another one: all
\* that is left of the earlier game is what it did to the default list
NextGame ==
  /\ pc = "ticking"
  /\ ~later
  /\ later' = TRUE
  /\ pc' = "start"
  /\ args' = << >>
  /\ rows' = << >>
  /\ extent' = << >>
  /\ margins' = << >>
  /\ tickCount' = 0
  /\ pattern' = << >>
  /\ seedRows' = << >>
  /\ past' = << >>
  /\ extentIs' = "none"
  /\ UNCHANGED defaultExtent

\* games constructed one after the other without an extent argument
NextGames == NewDefaultGrid \/ SeedPattern \/ Tick \/ NextGame

SpecGames == Init /\ [][NextGames]_vars

\* ---- what the properties are stated with ----
\* the positions <<row, col>> (0-based) of the live cells of a cell array
LiveCells(rws) ==
  UNION {{<<r - 1, c - 1>> : c \in {k \in 1..Len(rws[r]) : rws[r][k]}} : r \in 1..Len(rws)}

Translate(cells, d) == {<<p[1] + d[1], p[2] + d[2]>> : p \in cells}

\* the number of live positions among the 8 Moore neighbours of (r, c), given
\* the set of live positions: whatever is not in the set is dead, wherever it is
MooreCount(live, r, c) ==
  Cardinality({p \in live :
                 /\ p[1] - r \in -1..1
                 /\ p[2] - c \in -1..1
                 /\ p # <<r, c>>})

\* the state of a cell after one generation of the standard rules
LifeRule(alive, n) == IF alive THEN n = 2 \/ n = 3 ELSE n = 3

\* C1: margin invariant.  After seedPattern and after every tick, whenever the
\* grid has a live cell, every live cell has at least margins[north] rows
\* above it, margins[south] rows below it, margins[west] columns to its left
\* and margins[east] columns to its right, so none lies on an edge of the array.
C1_MarginInvariant ==
  pc = "ticking" =>
    \A r \in 0..(Len(rows) - 1) : \A c \in 0..(Len(rows[r + 1]) - 1) :
      rows[r + 1][c + 1] =>
        /\ r >= margins[1]
        /\ Len(rows) - 1 - r >= margins[3]
        /\ c >= margins[4]
        /\ Len(rows[r + 1]) - 1 - c >= margins[2]
        /\ r > 0 /\ r < Len(rows) - 1 /\ c > 0 /\ c < Len(rows[r + 1]) - 1

\* a tick whose births made the grid grow, and a deferred shrink behind it
C1_Witness ==
  /\ pc = "ticking" /\ LiveCells(rows) # {}
  /\ past[1].kind = "tick" /\ ~past[1].trim
  /\ \E side \in {"N", "E", "S", "W"} : past[1].deficits[side] > 0
  /\ \E side \in {"N", "E", "S", "W"} : past[1].deficits[side] < 0

\* C2: dimension invariant.  Whenever a grid exists (constructed, seeded,
\* ticked with or without trimming, live or entirely dead) the stored extent is
\* the number of rows and the length of every row, and both are at least 1.
C2_DimensionInvariant ==
  pc \in {"constructed", "ticking"} =>
    /\ extent[1] = Len(rows)
    /\ \A r \in 1..Len(rows) : Len(rows[r]) = extent[2]
    /\ extent[1] >= 1 /\ extent[2] >= 1

\* a trimming tick on an entirely dead grid that removed rows and added rows
C2_Witness ==
  /\ pc = "ticking" /\ LiveCells(rows) = {}
  /\ past[1].kind = "tick" /\ past[1].trim
  /\ past[1].deficits.N < 0 /\ past[1].deficits.S > 0
  /\ past[1].deficits.W < 0 /\ past[1].deficits.E > 0

\* C3: getCell(r, c) is a dead cell for every (r, c) outside
\* [0, rowCount) x [0, colCount), negative indices included.
C3_GetCellOutsideIsDead ==
  pc = "ticking" =>
    \A r \in (-Len(rows) - 1)..(Len(rows) + 1), c \in (-Len(rows[1]) - 1)..(Len(rows[1]) + 1) :
      (r < 0 \/ r >= Len(rows) \/ c < 0 \/ c >= Len(rows[1])) => ~getCell(rows, r, c)

\* C4: neighbour counts.  In every seeded or ticked grid, countNeighborsForRow
\* gives for every column the number of live cells among the 8 Moore neighbours
\* with every position outside the array dead; on the 3x3 grid whose only live
\* cell is the centre the counts are 1 around and 0 at the centre.
C4_NeighborCounts ==
  pc = "ticking" =>
    /\ LET live == LiveCells(rows)
       IN \A row \in 0..(extent[1] - 1) :
            countNeighborsForRow(rows, extent, row) =
              [c \in 1..extent[2] |-> MooreCount(live, row, c - 1)]
    /\ rows = <<<<FALSE, FALSE, FALSE>>, <<FALSE, TRUE, FALSE>>, <<FALSE, FALSE, FALSE>>>> =>
         /\ countNeighborsForRow(rows, extent, 0) = <<1, 1, 1>>
         /\ countNeighborsForRow(rows, extent, 1) = <<1, 0, 1>>
         /\ countNeighborsForRow(rows, extent, 2) = <<1, 1, 1>>

\* the 3x3 grid with only its centre alive
C4_Witness ==
  /\ pc = "ticking"
  /\ rows = <<<<FALSE, FALSE, FALSE>>, <<FALSE, TRUE, FALSE>>, <<FALSE, FALSE, FALSE>>>>

\* a grid with live cells next to its first row and column, where the
\* neighbours at index -1 are looked up
C4_WitnessEdge ==
  /\ pc = "ticking"
  /\ \E p \in LiveCells(rows) : p[1] = 1 /\ p[2] = 1

\* C5: simultaneous rule application.  For every tick and every position of the
\* pre-tick grid, the cell once the transitions are applied (before rows or
\* columns are put in or taken out) is alive iff the pre-tick cell was alive
\* with 2 or 3 live neighbours in the pre-tick grid, or dead with exactly 3.
C5_SimultaneousRule ==
  (pc = "ticking" /\ past[1].kind = "tick") =>
    LET before == past[1].rows
        after == past[1].mid
        live == LiveCells(before)
    IN /\ Len(after) = Len(before)
       /\ \A r \in 1..Len(before) :
            /\ Len(after[r]) = Len(before[r])
            /\ \A c \in 1..Len(before[r]) :
                 after[r][c] = LifeRule(before[r][c], MooreCount(live, r - 1, c - 1))

\* a tick in which a cell died, a cell was born and a cell survived
C5_Witness ==
  /\ pc = "ticking" /\ past[1].kind = "tick"
  /\ \E p \in LiveCells(past[1].rows) : p \notin LiveCells(past[1].mid)
  /\ \E p \in LiveCells(past[1].mid) : p \notin LiveCells(past[1].rows)
  /\ \E p \in LiveCells(past[1].mid) : p \in LiveCells(past[1].rows)

\* C6: trim cadence.  tickCount is 0 after seeding and goes up by exactly 1 per
\* tick; a tick passes trim_now true iff the tickCount it starts with is a
\* positive multiple of 5; the row count or the column count goes down only in
\* such a tick.
C6_TrimCadence ==
  pc = "ticking" =>
    /\ past[1].kind = "seed" => (tickCount = 0 /\ ~past[1].trim)
    /\ past[1].kind = "tick" =>
         /\ tickCount = past[1].tc + 1
         /\ past[1].trim <=> (past[1].tc > 0 /\ past[1].tc % 5 = 0)
         /\ (Len(rows) < Len(past[1].rows) \/ Len(rows[1]) < Len(past[1].rows[1])) =>
              (past[1].tc > 0 /\ past[1].tc % 5 = 0)

\* a trimming tick that made the grid smaller
C6_Witness ==
  /\ pc = "ticking" /\ past[1].kind = "tick" /\ past[1].trim
  /\ Len(rows) < Len(past[1].rows)
  /\ LiveCells(rows) # {}

MinRow(cells) == CHOOSE r \in {p[1] : p \in cells} : \A p \in cells : r <= p[1]

MinCol(cells) == CHOOSE c \in {p[2] : p \in cells} : \A p \in cells : c <= p[2]

BlockTicked == pc = "ticking" /\ pattern = gPatternDict.block /\ past[1].kind = "tick"

\* C7 as claimed: for "XX/XX" every tick, the trimming ones included, leaves
\* the (row, col) positions of the live cells as they were.
C7_BlockPositionsUnchanged ==
  BlockTicked => LiveCells(rows) = LiveCells(past[1].rows)

\* C7 as amended: for "XX/XX" a tick without trimming leaves the positions of
\* the live cells as they were; a trimming tick keeps the block whole and
\* moves it to rows margins[north].., columns margins[west].., the excess dead
\* rows above it and columns left of it having been removed.
C7_BlockStableUpToTrim ==
  BlockTicked =>
    LET before == LiveCells(past[1].rows)
    IN /\ Cardinality(before) = 4
       /\ IF past[1].trim
            THEN LiveCells(rows) =
                   Translate(before, <<margins[1] - MinRow(before), margins[4] - MinCol(before)>>)
            ELSE LiveCells(rows) = before

\* a trimming tick that moved the block
C7_Witness ==
  BlockTicked /\ past[1].trim /\ LiveCells(rows) # LiveCells(past[1].rows)

BlinkerTickedTwice ==
  /\ pc = "ticking" /\ pattern = gPatternDict.blink
  /\ Len(seedRows) = args.extent[1] /\ Len(seedRows[1]) = args.extent[2]
  /\ Len(past) = 2 /\ past[1].kind = "tick" /\ past[2].kind = "tick"

C9_GliderTranslation ==
  (pc = "ticking" /\ pattern = gPatternDict.glider /\ tickCount = 4) =>
    LiveCells(rows) = Translate(LiveCells(seedRows), <<1, 1>>)

\* four ticks of a glider during which the grid grew
C9_Witness ==
  /\ pc = "ticking" /\ pattern = gPatternDict.glider /\ tickCount = 4
  /\ Cardinality(LiveCells(rows)) = 5
  /\ Len(rows) > Len(seedRows)

\* C10: construction of a grid of type "inf" fails, leaving no grid, exactly
\* when a margin is below 1, or rowCount < north + south, or colCount < east +
\* west; otherwise it gives a rowCount x colCount array of dead cells.
C10_Construction ==
  (pc \in {"configError", "constructed"} /\ args.gridType = "inf") =>
    IF \/ \E i \in 1..4 : args.margins[i] < 1
       \/ args.extent[1] < args.margins[1] + args.margins[3]
       \/ args.extent[2] < args.margins[2] + args.margins[4]
      THEN pc = "configError" /\ rows = << >>
      ELSE /\ pc = "constructed"
           /\ Len(rows) = args.extent[1]
           /\ \A r \in 1..Len(rows) :
                Len(rows[r]) = args.extent[2] /\ \A c \in 1..Len(rows[r]) : ~rows[r][c]

\* a construction refused for its column count alone, with margins that tell
\* the east/west pair from the others
C10_Witness ==
  /\ pc = "configError" /\ args.gridType = "inf"
  /\ \A i \in 1..4 : args.margins[i] >= 1
  /\ args.extent[1] >= args.margins[1] + args.margins[3]
  /\ args.extent[2] < args.margins[2] + args.margins[4]
  /\ args.extent[2] >= args.margins[1] + args.margins[3]

\* the largest member of a set of naturals, 0 when there is none
SetMax(S) == IF S = {} THEN 0 ELSE CHOOSE m \in S : \A x \in S : x <= m

\* C11: pattern parsing.  The Pattern built from the notation a grid is seeded
\* with has a point for every live character and none for a dead one, its
\* getExtent() is the largest row and column index over the live characters
\* (0 when there is none), and a notation without a live character gives no
\* point and the extent (0, 0).
C11_OnlyLivePoints ==
  pc \in {"ticking", "seedError"} =>
    LET points == PatternPoints(pattern)
        live == {i \in 1..Len(points) : points[i].alive}
    IN /\ \A i \in 1..Len(points) : points[i].alive
       /\ PatternExtent(points) =
            <<SetMax({points[i].row : i \in live}), SetMax({points[i].col : i \in live})>>
       /\ live = {} => (points = << >> /\ PatternExtent(points) = <<0, 0>>)

\* C12: an entirely dead grid is a fixed point of margin maintenance.  When
\* the cell array that applyPoints hands to _maintainMargin has no live cell
\* (as after a lone "X" died), the row count and the column count come out as
\* they went in, with trim_now true and false alike.
C12_DeadGridFixedPoint ==
  (pc = "ticking" /\ LiveCells(past[1].mid) = {}) =>
    /\ Len(rows) = Len(past[1].mid)
    /\ Len(rows[1]) = Len(past[1].mid[1])

\* the positions of the live characters of a pattern notation
PatternLive(notation) ==
  LET points == PatternPoints(notation)
  IN {<<points[i].row, points[i].col>> : i \in {k \in 1..Len(points) : points[k].alive}}

\* C13: seeding.  For every grid that was constructed and every pattern, one as
\* large as the grid or larger included, seedPattern ends without an error,
\* leaves no fewer rows and columns than the grid was constructed with, leaves
\* as live cells exactly the pattern's live positions moved by one common
\* offset, and leaves every live cell with the margins around it.
C13_SeedingIntact ==
  (pc = "seedError" \/ (pc = "ticking" /\ past[1].kind = "seed")) =>
    /\ pc = "ticking"
    /\ Len(rows) >= args.extent[1] /\ Len(rows[1]) >= args.extent[2]
    /\ \E dr \in 0..Len(rows), dc \in 0..Len(rows[1]) :
         LiveCells(rows) = Translate(PatternLive(pattern), <<dr, dc>>)
    /\ \A p \in LiveCells(rows) :
         /\ p[1] >= margins[1] /\ Len(rows) - 1 - p[1] >= margins[3]
         /\ p[2] >= margins[4] /\ Len(rows[1]) - 1 - p[2] >= margins[2]

\* the cell array mid with n, s, w and e dead rows and columns put around it
\* at the north, south, west and east edges (taken off it where negative)
Resized(mid, n, s, w, e) ==
  [r \in 1..(Len(mid) + n + s) |->
     [c \in 1..(Len(mid[1]) + w + e) |->
        /\ r - n \in 1..Len(mid)
        /\ c - w \in 1..Len(mid[1])
        /\ mid[r - n][c - w]]]

\* a deficit as the number of rows or columns to put in
Growth(deficit) == IF deficit > 0 THEN deficit ELSE 0

\* the deficits of a cell array that has a live cell: the margin asked for
\* minus the dead rows or columns there are between the live cells and the edge
SideDeficits(mid, mar) ==
  LET live == LiveCells(mid)
  IN [N |-> mar[1] - MinRow(live),
      E |-> mar[2] - (Len(mid[1]) - 1 - SetMax({p[2] : p \in live})),
      S |-> mar[3] - (Len(mid) - 1 - SetMax({p[1] : p \in live})),
      W |-> mar[4] - MinCol(live)]

\* C14: shrink deferral and unconditional growth.  An applyPoints call with
\* trim_now false takes no row or column out and puts in, on every side whose
\* deficit is positive, exactly that many dead rows or columns at that edge,
\* everything else staying as it was; with trim_now true the sides whose
\* deficit is positive grow by exactly as much.
C14_DeferredShrinkGrowth ==
  pc = "ticking" =>
    LET d == past[1].deficits
        mid == past[1].mid
    IN /\ LiveCells(mid) # {} => d = SideDeficits(mid, margins)
       /\ ~past[1].trim =>
            /\ Len(rows) >= Len(mid) /\ Len(rows[1]) >= Len(mid[1])
            /\ rows = Resized(mid, Growth(d.N), Growth(d.S), Growth(d.W), Growth(d.E))
       /\ past[1].trim => rows = Resized(mid, d.N, d.S, d.W, d.E)

\* a tick without trimming that put rows or columns in on one side and left
\* the excess at the north edge where it was
C14_Witness ==
  /\ pc = "ticking" /\ LiveCells(rows) # {}
  /\ past[1].kind = "tick" /\ ~past[1].trim
  /\ \E side \in {"E", "S", "W"} : past[1].deficits[side] > 0
  /\ past[1].deficits.N < 0
  /\ rows # past[1].mid

\* C15: exact margins after a trimming apply.  When an applyPoints call with
\* trim_now true leaves a grid with a live cell, the dead distance between the
\* live cells and each edge is exactly that side's margin, so that rowCount is
\* the height of the live region plus margins[north] + margins[south] and
\* colCount its width plus margins[east] + margins[west].
C15_ExactMarginsAfterTrim ==
  (pc = "ticking" /\ past[1].trim /\ LiveCells(rows) # {}) =>
    LET live == LiveCells(rows)
        top == MinRow(live)
        bottom == SetMax({p[1] : p \in live})
        left == MinCol(live)
        right == SetMax({p[2] : p \in live})
    IN /\ top = margins[1]
       /\ Len(rows) - 1 - bottom = margins[3]
       /\ left = margins[4]
       /\ Len(rows[1]) - 1 - right = margins[2]
       /\ Len(rows) = (bottom - top + 1) + margins[1] + margins[3]
       /\ \A r \in 1..Len(rows) : Len(rows[r]) = (right - left + 1) + margins[2] + margins[4]

\* a trimming tick that took rows and columns out around live cells
C15_Witness ==
  /\ pc = "ticking" /\ past[1].kind = "tick" /\ past[1].trim
  /\ LiveCells(rows) # {}
  /\ past[1].deficits.N < 0 /\ past[1].deficits.W < 0
  /\ Len(rows) < Len(past[1].mid) /\ Len(rows[1]) < Len(past[1].mid[1])

\* the orders the four sides can be worked on in
SideOrders ==
  {o \in [1..4 -> {"N", "S", "W", "E"}] : \A i, j \in 1..4 : o[i] = o[j] => i = j}

\* C16: the order of the edges does not matter.  For the cell array and the
\* deficits of every applyPoints call, and for trim_now true and false, working
\* on the four sides in any order, each with the dimensions as they then are,
\* gives the same rows and the same stored extent as the order north, south,
\* west, east of the code, which is the grid the call left.
C16_OrderIndependence ==
  pc = "ticking" =>
    LET g == [rows |-> past[1].mid, extent |-> past[1].extent]
        d == past[1].deficits
    IN /\ AdjustInOrder(g, <<"N", "S", "W", "E">>, d, past[1].trim) =
            [rows |-> rows, extent |-> extent]
       /\ \A trim_now \in BOOLEAN :
            LET result == maintainMargin(g, margins, trim_now)
            IN \A order \in SideOrders : AdjustInOrder(g, order, d, trim_now) = result

\* a trimming tick that had rows to take out at the north edge and columns to
\* put in at the east edge, around live cells
C16_Witness ==
  /\ pc = "ticking" /\ past[1].kind = "tick" /\ past[1].trim
  /\ LiveCells(rows) # {}
  /\ past[1].deficits.N < 0 /\ past[1].deficits.E > 0

\* rows lo..hi (1-based) of a cell array have no live cell
RowsDead(rws, lo, hi) ==
  \A r \in lo..hi : \A c \in 1..Len(rws[r]) : ~rws[r][c]

\* columns lo..hi (1-based) of a cell array have no live cell
ColumnsDead(rws, lo, hi) ==
  \A r \in 1..Len(rws) : \A c \in lo..hi : ~rws[r][c]

\* C17: margin maintenance never changes the pattern.  Across the rows and
\* columns put in and taken out by any applyPoints call, with or without
\* trimming, the number of live cells stays the same, the live cells keep
\* their positions relative to one another, every row or column taken out
\* had no live cell and every one put in has none.
C17_ResizeKeepsPattern ==
  pc = "ticking" =>
    LET mid == past[1].mid
        d == past[1].deficits
        before == LiveCells(mid)
        after == LiveCells(rows)
    IN /\ Cardinality(after) = Cardinality(before)
       /\ before # {} =>
            after = Translate(before, <<MinRow(after) - MinRow(before),
                                        MinCol(after) - MinCol(before)>>)
       /\ d.N > 0 => RowsDead(rows, 1, d.N)
       /\ d.S > 0 => RowsDead(rows, Len(rows) - d.S + 1, Len(rows))
       /\ d.W > 0 => ColumnsDead(rows, 1, d.W)
       /\ d.E > 0 => ColumnsDead(rows, Len(rows[1]) - d.E + 1, Len(rows[1]))
       /\ Len(rows) < Len(mid) =>
            /\ d.N < 0 => RowsDead(mid, 1, -d.N)
            /\ d.S < 0 => RowsDead(mid, Len(mid) + d.S + 1, Len(mid))
       /\ Len(rows[1]) < Len(mid[1]) =>
            /\ d.W < 0 => ColumnsDead(mid, 1, -d.W)
            /\ d.E < 0 => ColumnsDead(mid, Len(mid[1]) + d.E + 1, Len(mid[1]))

\* a trimming tick that took out two columns at the west edge and put a row
\* or a column in, the live cells going through it
C17_Witness ==
  /\ pc = "ticking" /\ past[1].kind = "tick" /\ past[1].trim
  /\ Cardinality(LiveCells(rows)) >= 3
  /\ past[1].deficits.W <= -2
  /\ \E side \in {"N", "E", "S"} : past[1].deficits[side] > 0
  /\ LiveCells(rows) # LiveCells(past[1].mid)

\* one generation of the standard rules on the unbounded plane, given the set
\* of live positions (coordinates may be negative)
PlaneStep(live) ==
  LET around == UNION {{<<p[1] + dr, p[2] + dc>> : dr \in -1..1, dc \in -1..1} : p \in live}
  IN {q \in around : LifeRule(q \in live, MooreCount(live, q[1], q[2]))}

\* n generations on the unbounded plane
RECURSIVE PlaneAfter(_, _)
PlaneAfter(live, n) == IF n = 0 THEN live ELSE PlaneAfter(PlaneStep(live), n - 1)

\* the top-left corner of the bounding box of a non-empty set of positions
Corner(cells) == <<MinRow(cells), MinCol(cells)>>

\* C18: the grid refines the unbounded Game of Life.  For every pattern that
\* seeding placed on the grid and every number of ticks, the live cells of the
\* grid are, moved by one translation, the live positions that the standard
\* rules give on the unbounded plane after as many generations from the
\* pattern's live positions.
C18_RefinesUnboundedLife ==
  pc = "ticking" =>
    LET plane == PlaneAfter(PatternLive(pattern), tickCount)
        live == LiveCells(rows)
    IN /\ Cardinality(live) = Cardinality(plane)
       /\ plane # {} =>
            live = Translate(plane, <<Corner(live)[1] - Corner(plane)[1],
                                      Corner(live)[2] - Corner(plane)[2]>>)

\* a glider that has gone beyond the last row or column of the array it was
\* seeded on, the grid having grown and been trimmed on the way
C18_Witness ==
  /\ pc = "ticking" /\ pattern = gPatternDict.glider /\ tickCount > 5
  /\ Cardinality(LiveCells(rows)) = 5
  /\ LET seeded == Corner(LiveCells(seedRows))
     IN \E p \in PlaneAfter(PatternLive(pattern), tickCount) :
          p[1] + seeded[1] >= Len(seedRows) \/ p[2] + seeded[2] >= Len(seedRows[1])

\* C19: game instances are independent.  The rows and columns put in and taken
\* out by an earlier game do not change the extent that a later game
\* constructed without an extent argument starts from: whenever such a game
\* has been constructed after an earlier one, its Grid was given [10, 20].
C19_GamesIndependent ==
  (later /\ pc # "start") => args.extent = DefaultExtent

====
